---- MODULE Spec2Model ----
(***************************************************************************)
(* dc-avro command line: one invocation of a command is one action.  An    *)
(* action runs the whole handler of src/dc_avro/main.py and leaves in the  *)
(* state what the run did: the ordered events (calls of get_resource,      *)
(* open(), httpx.get, validate, the delegated capability, console.print),  *)
(* the lines written to standard output, the exception that ended the run  *)
(* and the exit code of the process.                                       *)
(*                                                                         *)
(* Python values: None is the string "None" (never used as an option       *)
(* value), a str is a sequence of one-character strings where its          *)
(* characters matter (events, printed bytes) and a plain string where they *)
(* do not (paths, urls), bytes are sequences of integers 0..255.           *)
(***************************************************************************)
EXTENDS Integers, Sequences, FiniteSets, TLC

VARIABLES cmd, args, trace, stdout, exc, exitCode

vars == <<cmd, args, trace, stdout, exc, exitCode>>

\* ------------------------------------------------------------ bounds
\* longest list of files given to lint
MaxFiles == 3
\* largest value of the int field of a record given to serialize
MaxInt == 2

\* ------------------------------------------------------- python values
None == "None"

NoExc == [type |-> "None", msg |-> <<>>]

Raise(type, msg) == [type |-> type, msg |-> msg]

\* bool(x) of an Optional[str]: None and the empty string are falsy
Truthy(x) == x # None /\ x # ""

\* ------------------------------------------------- the world outside
\* Local files: path -> text read from it.  A path outside the domain does
\* not exist (open() raises FileNotFoundError); so does the empty path.
Files ==
    [p \in {"example.avsc", "invalid_example.avsc", "unknown_type.avsc",
            "invalid_resource.txt"} |->
        CASE p = "example.avsc" -> "json:Example"
          [] p = "invalid_example.avsc" -> "json:Invalid"
          [] p = "unknown_type.avsc" -> "json:Unknown"
          [] OTHER -> "not json"]

\* Remote resources: url -> body of the response.  A url outside the domain
\* cannot be fetched (httpx.get raises a transport error).
Urls ==
    [u \in {"https://schema-registry/example.avsc",
            "https://schema-registry/other.avsc",
            "https://schema-registry/invalid.avsc",
            "https://google.com"} |->
        CASE u = "https://schema-registry/example.avsc" -> "json:Example"
          [] u = "https://schema-registry/other.avsc" -> "json:Other"
          [] u = "https://schema-registry/invalid.avsc" -> "json:Invalid"
          [] OTHER -> "not json"]

\* json.loads / Response.json: the document of a JSON text, or JSONDecodeError
JsonLoads(text) ==
    CASE text = "json:Example" -> [ok |-> TRUE, doc |-> "Example"]
      [] text = "json:Other" -> [ok |-> TRUE, doc |-> "Other"]
      [] text = "json:Invalid" -> [ok |-> TRUE, doc |-> "Invalid"]
      [] text = "json:Unknown" -> [ok |-> TRUE, doc |-> "Unknown"]
      [] OTHER -> [ok |-> FALSE, doc |-> "JSONDecodeError"]

\* fastavro.parse_schema: what it raises on a document ("" when it accepts it)
\* and the message of the exception
parse_schema(doc) ==
    CASE doc = "Invalid" ->
            [raises |-> "SchemaParseException",
             msg |-> "record schema requires a fields array"]
      [] doc = "Unknown" -> [raises |-> "UnknownType", msg |-> "unknown"]
      [] OTHER -> [raises |-> "", msg |-> ""]

\* ------------------------------------------------------------ events
Ev(ev, ref, pos, arg) == [ev |-> ev, ref |-> ref, pos |-> pos, arg |-> arg]

\* outcome of a call: the value returned or the exception raised, and the
\* events it caused
Returned(val, tr) == [ok |-> TRUE, val |-> val, exc |-> NoExc, trace |-> tr]

Raised(e, tr) == [ok |-> FALSE, val |-> None, exc |-> e, trace |-> tr]

\* ---------------------------------------------------- str and bytes
\* The printable ASCII characters 32..95 and 97..126 in order.  The backquote
\* (96) cannot be written in a TLA+ string; no text of the model holds it.
AsciiLow ==
    <<" ", "!", "\"", "#", "$", "%", "&", "'", "(", ")", "*", "+", ",", "-", ".", "/",
      "0", "1", "2", "3", "4", "5", "6", "7", "8", "9", ":", ";", "<", "=", ">", "?",
      "@", "A", "B", "C", "D", "E", "F", "G", "H", "I", "J", "K", "L", "M", "N", "O",
      "P", "Q", "R", "S", "T", "U", "V", "W", "X", "Y", "Z", "[", "\\", "]", "^", "_">>

AsciiHigh ==
    <<"a", "b", "c", "d", "e", "f", "g", "h", "i", "j", "k", "l", "m", "n", "o",
      "p", "q", "r", "s", "t", "u", "v", "w", "x", "y", "z", "{", "|", "}", "~">>

IndexOf(seq, x) == CHOOSE i \in 1..Len(seq) : seq[i] = x

\* ord(c) of a printable character
Ord(c) ==
    IF \E i \in 1..Len(AsciiLow) : AsciiLow[i] = c
    THEN 31 + IndexOf(AsciiLow, c)
    ELSE 96 + IndexOf(AsciiHigh, c)

\* chr(b) of a printable code
Chr(b) == IF b < 96 THEN AsciiLow[b - 31] ELSE AsciiHigh[b - 96]

HexDigits ==
    <<"0", "1", "2", "3", "4", "5", "6", "7", "8", "9", "a", "b", "c", "d", "e", "f">>

IsHex(c) == \E i \in 1..Len(HexDigits) : HexDigits[i] = c

HexVal(c) == IndexOf(HexDigits, c) - 1

IsDigit(c) == IsHex(c) /\ HexVal(c) < 10

\* str(n) of a natural number, as its characters
RECURSIVE Str(_)
Str(n) == IF n < 10 THEN <<HexDigits[n + 1]>> ELSE Str(n \div 10) \o <<HexDigits[(n % 10) + 1]>>

\* str.encode(): the bytes of an ASCII text
RECURSIVE Encode(_)
Encode(text) == IF text = <<>> THEN <<>> ELSE <<Ord(Head(text))>> \o Encode(Tail(text))

\* one byte inside repr(bytes), q the quote of the literal
EscapeByte(b, q) ==
    CASE b = 92 -> <<"\\", "\\">>
      [] b = 9 -> <<"\\", "t">>
      [] b = 10 -> <<"\\", "n">>
      [] b = 13 -> <<"\\", "r">>
      [] b >= 32 /\ b <= 126 /\ b # 92 ->
            IF Chr(b) = q THEN <<"\\", q>> ELSE <<Chr(b)>>
      [] OTHER -> <<"\\", "x", HexDigits[(b \div 16) + 1], HexDigits[(b % 16) + 1]>>

RECURSIVE EscapeBytes(_, _)
EscapeBytes(bs, q) ==
    IF bs = <<>> THEN <<>> ELSE EscapeByte(Head(bs), q) \o EscapeBytes(Tail(bs), q)

\* repr(bytes), the text console.print writes for a bytes object: b'...' and
\* b"..." when the bytes hold a single quote and no double quote.  The texts
\* of the model are shorter than a console line: rich's wrapping of a longer
\* line (a newline inside the literal) is left out.
BytesRepr(bs) ==
    LET has(b) == \E i \in 1..Len(bs) : bs[i] = b
        q == IF has(39) /\ ~has(34) THEN "\"" ELSE "'"
    IN  <<"b", q>> \o EscapeBytes(bs, q) \o <<q>>

\* the body of a bytes literal; <<-1>> when it is malformed
RECURSIVE UnescapeBytes(_, _)
UnescapeBytes(text, q) ==
    IF text = <<>> THEN <<>>
    ELSE IF Head(text) = q THEN <<-1>>
    ELSE IF Head(text) # "\\"
    THEN LET rest == UnescapeBytes(Tail(text), q)
         IN  IF rest = <<-1>> THEN rest ELSE <<Ord(Head(text))>> \o rest
    ELSE IF Len(text) < 2 THEN <<-1>>
    ELSE LET c == text[2]
         IN  IF c = "x"
             THEN IF Len(text) >= 4 /\ IsHex(text[3]) /\ IsHex(text[4])
                  THEN LET rest == UnescapeBytes(SubSeq(text, 5, Len(text)), q)
                       IN  IF rest = <<-1>> THEN rest
                           ELSE <<16 * HexVal(text[3]) + HexVal(text[4])>> \o rest
                  ELSE <<-1>>
             ELSE IF c \in {"\\", "'", "\"", "t", "n", "r"}
             THEN LET rest == UnescapeBytes(SubSeq(text, 3, Len(text)), q)
                      b == CASE c = "t" -> 9 [] c = "n" -> 10 [] c = "r" -> 13
                             [] OTHER -> Ord(c)
                  IN  IF rest = <<-1>> THEN rest ELSE <<b>> \o rest
             ELSE <<-1>>

IsBytesLiteral(text) ==
    /\ Len(text) >= 3
    /\ text[1] = "b"
    /\ text[2] \in {"'", "\""}
    /\ text[Len(text)] = text[2]
    /\ UnescapeBytes(SubSeq(text, 3, Len(text) - 1), text[2]) # <<-1>>

\* the text of the JSON object (and Python dict literal) {"a": n}
JsonText(n) == <<"{", "\"", "a", "\"", ":", " ">> \o Str(n) \o <<"}">>

\* the natural number a text of digits denotes
RECURSIVE Digits(_)
Digits(text) ==
    IF Len(text) = 1 THEN HexVal(text[1])
    ELSE 10 * Digits(SubSeq(text, 1, Len(text) - 1)) + HexVal(text[Len(text)])

IsJsonText(text) ==
    /\ Len(text) >= 8
    /\ SubSeq(text, 1, 6) = <<"{", "\"", "a", "\"", ":", " ">>
    /\ text[Len(text)] = "}"
    /\ \A i \in 7..(Len(text) - 1) : IsDigit(text[i])
    /\ (Len(text) > 8 => text[7] # "0")

\* repr of the dict {'a': n}, the text console.print writes for it
DictRepr(n) ==
    <<"{", "'", "a", "'", ":", " ">>
        \o (IF n < 0 THEN <<"-">> \o Str(-n) ELSE Str(n)) \o <<"}">>

IsDictRepr(text) ==
    /\ Len(text) >= 8
    /\ SubSeq(text, 1, 6) = <<"{", "'", "a", "'", ":", " ">>
    /\ text[Len(text)] = "}"
    /\ \A i \in 7..(Len(text) - 1) : IsDigit(text[i])
    /\ (Len(text) > 8 => text[7] # "0")

\* ast.literal_eval(text): a bytes literal gives bytes, the text of a dict
\* (in either quoting) gives the dict, here the value of its field; anything
\* else raises
literal_eval(text) ==
    IF IsBytesLiteral(text)
    THEN [kind |-> "bytes",
          val |-> UnescapeBytes(SubSeq(text, 3, Len(text) - 1), text[2])]
    ELSE IF IsJsonText(text) \/ IsDictRepr(text)
    THEN [kind |-> "dict", val |-> <<Digits(SubSeq(text, 7, Len(text) - 1))>>]
    ELSE [kind |-> "error", val |-> <<>>]

\* ---------------------- dataclasses_avroschema.serialization (the codec)
\* A record with one int field a, of value n >= 0.
SerializationTypes == {"avro", "avro-json"}

\* Avro binary: the zig-zag varint of n
RECURSIVE Varint(_)
Varint(z) == IF z < 128 THEN <<z>> ELSE <<(z % 128) + 128>> \o Varint(z \div 128)

\* the value of the varint at the head of bs, -1 when the bytes end early
RECURSIVE ReadVarint(_)
ReadVarint(bs) ==
    IF bs = <<>> THEN -1
    ELSE IF Head(bs) < 128 THEN Head(bs)
    ELSE LET rest == ReadVarint(Tail(bs))
         IN  IF rest = -1 THEN -1 ELSE (Head(bs) - 128) + 128 * rest

\* serialization.serialize(data, schema, serialization_type): bytes
codec_serialize(n, serialization_type) ==
    IF serialization_type = "avro" THEN Varint(2 * n) ELSE Encode(JsonText(n))

\* bytes.decode(): the text of ASCII bytes, <<"?">> for bytes that are no text
RECURSIVE Decode(_)
Decode(bs) ==
    IF bs = <<>> THEN <<>>
    ELSE IF Head(bs) < 32 \/ Head(bs) > 126 \/ Head(bs) = 96 THEN <<"?">>
    ELSE <<Chr(Head(bs))>> \o Decode(Tail(bs))

\* serialization.deserialize(data, schema, serialization_type): the value of
\* the field, or that the codec raises.  The binary reader takes the varint at
\* the head of the bytes and leaves the rest unread.
codec_deserialize(bs, serialization_type) ==
    IF serialization_type = "avro"
    THEN LET z == ReadVarint(bs)
         IN  IF z = -1 THEN [ok |-> FALSE, val |-> 0]
             ELSE [ok |-> TRUE,
                   val |-> IF z % 2 = 0 THEN z \div 2 ELSE -((z + 1) \div 2)]
    ELSE LET text == Decode(bs)
         IN  IF IsJsonText(text)
             THEN [ok |-> TRUE, val |-> Digits(SubSeq(text, 7, Len(text) - 1))]
             ELSE [ok |-> FALSE, val |-> 0]

\* --------------------------------------------------- _schema_utils.py
\* get_resource_from_url without its try/except: the decode error leaves as it is
get_resource_from_url_unwrapped(url, ref, pos) ==
    LET call == <<Ev("get", ref, pos, url)>>
    IN  IF url \notin DOMAIN Urls
        THEN Raised(Raise("ConnectError", <<url>>), call)
        ELSE LET j == JsonLoads(Urls[url])
             IN  IF j.ok
                 THEN Returned(j.doc, call)
                 ELSE Raised(Raise("JSONDecodeError", <<>>), call)

get_resource_from_url(url, ref, pos) ==
    LET call == <<Ev("get", ref, pos, url)>>
    IN  IF url \notin DOMAIN Urls
        THEN Raised(Raise("ConnectError", <<url>>), call)
        ELSE LET j == JsonLoads(Urls[url])
             IN  IF j.ok
                 THEN Returned(j.doc, call)
                 ELSE Raised(Raise("JsonRequired",
                        <<"Can not convert to json the resource from ", url>>),
                        call)

get_resource_from_path(path, ref, pos) ==
    LET call == <<Ev("open", ref, pos, path)>>
    IN  IF path \notin DOMAIN Files
        THEN Raised(Raise("FileNotFoundError", <<path>>), call)
        ELSE LET j == JsonLoads(Files[path])
                 rd == call \o <<Ev("read", ref, pos, path)>>
             IN  IF j.ok
                 THEN Returned(j.doc, rd)
                 ELSE Raised(Raise("JsonRequired",
                        <<"Can not convert to json the resource from ", path>>),
                        rd)

\* validate_schema without its second except clause: UnknownType leaves as it is
validate_schema_one_except(schema, ref, pos) ==
    LET call == <<Ev("validate", ref, pos, schema)>>
        p == parse_schema(schema)
    IN  CASE p.raises = "SchemaParseException" ->
                Raised(Raise("InvalidSchema",
                    <<"Schema ", schema, " is not valid.\n Error: ", p.msg>>),
                    call)
          [] p.raises = "UnknownType" -> Raised(Raise("UnknownType", <<p.msg>>), call)
          [] OTHER -> Returned(TRUE, call)

\* main.py calls it _schema_utils.validate.  The message is kept as its parts
\* (the quotes around the parser's message are left out).
validate_schema(schema, ref, pos) ==
    LET call == <<Ev("validate", ref, pos, schema)>>
        p == parse_schema(schema)
    IN  CASE p.raises = "SchemaParseException" ->
                Raised(Raise("InvalidSchema",
                    <<"Schema ", schema, " is not valid.\n Error: ", p.msg>>),
                    call)
          [] p.raises = "UnknownType" ->
                Raised(Raise("InvalidSchema",
                    <<"Schema ", schema,
                      " is an unknown type.\n Make sure that its type is a python dictionary">>),
                    call)
          [] OTHER -> Returned(TRUE, call)

\* ------------------------------------------------------------ main.py
generate_error_messages(path_name, url_name) ==
    [all_specified |-> <<"You can not specify both ", path_name, " and ", url_name>>,
     required |-> <<path_name, " or ", url_name, " must be specified">>]

\* error_messages=None of get_resource (a dict cannot be compared with a string)
NoMessages == [all_specified |-> <<>>, required |-> <<>>]

get_resource(path, url, error_messages, ref) ==
    LET call == <<Ev("get_resource", ref, 0, "")>>
        msgs == IF error_messages = NoMessages
                THEN generate_error_messages("--path", "--url")
                ELSE error_messages
        r == IF Truthy(path) /\ Truthy(url)
             THEN Raised(Raise("BadParameter", msgs.all_specified), <<>>)
             ELSE IF path # None
             THEN get_resource_from_path(path, ref, 0)
             ELSE IF url # None
             THEN get_resource_from_url(url, ref, 0)
             ELSE Raised(Raise("BadParameter", msgs.required), <<>>)
    IN  [r EXCEPT !.trace = call \o r.trace]

\* typer: a BadParameter is a usage error (exit code 2), any other exception
\* that leaves the command ends the process with exit code 1
ExitCode(e) ==
    IF e = NoExc THEN 0 ELSE IF e.type = "BadParameter" THEN 2 ELSE 1

\* a finished run: events, standard output, exception
Run(tr, out, e) == [trace |-> tr, stdout |-> out, exc |-> e]

\* ModelGenerator(base_class).render(schema): the source text of the model
render(schema, base_class) == <<"class ", schema, "(", base_class, ")">>

\* generate_model without its call of validate
generate_model_unvalidated(path, url, base_class) ==
    LET resource == get_resource(path, url, NoMessages, "resource")
    IN  IF ~resource.ok THEN Run(resource.trace, <<>>, resource.exc)
        ELSE Run(resource.trace \o <<Ev("delegate", "resource", 0, "render"),
                                     Ev("print", "resource", 0, "")>>,
                 <<render(resource.val, base_class)>>, NoExc)

generate_model(path, url, base_class) ==
    LET resource == get_resource(path, url, NoMessages, "resource")
    IN  IF ~resource.ok THEN Run(resource.trace, <<>>, resource.exc)
        ELSE
        LET v == validate_schema(resource.val, "resource", 0)
            t1 == resource.trace \o v.trace
        IN  IF ~v.ok THEN Run(t1, <<>>, v.exc)
            ELSE Run(t1 \o <<Ev("delegate", "resource", 0, "render"),
                             Ev("print", "resource", 0, "")>>,
                     <<render(resource.val, base_class)>>, NoExc)

validate_schema_command(path, url) ==
    LET resource == get_resource(path, url, NoMessages, "resource")
    IN  IF ~resource.ok THEN Run(resource.trace, <<>>, resource.exc)
        ELSE
        LET v == validate_schema(resource.val, "resource", 0)
            t1 == resource.trace \o v.trace
        IN  IF ~v.ok THEN Run(t1, <<>>, v.exc)
            ELSE IF v.val
            THEN Run(t1 \o <<Ev("delegate", "resource", 0, "confirm"),
                             Ev("print", "resource", 0, ""),
                             Ev("print", "resource", 0, "")>>,
                     <<<<"[bold green]Valid schema!![/bold green] :+1: \n">>,
                       <<resource.val>>>>, NoExc)
            ELSE Run(t1, <<>>, NoExc)

\* DeepDiff(source, target): empty for equal documents
DeepDiff(source, target) ==
    IF source = target THEN <<"{}">>
    ELSE <<"values_changed", source, target>>

schema_diff(source_path, source_url, target_path, target_url) ==
    LET source_resource ==
            get_resource(source_path, source_url,
                         generate_error_messages("--source-path", "--source-url"),
                         "source")
    IN  IF ~source_resource.ok
        THEN Run(source_resource.trace, <<>>, source_resource.exc)
        ELSE
        LET target_resource ==
                get_resource(target_path, target_url,
                             generate_error_messages("--path-path", "--path-url"),
                             "target")
            t1 == source_resource.trace \o target_resource.trace
        IN  IF ~target_resource.ok THEN Run(t1, <<>>, target_resource.exc)
            ELSE
            LET vs == validate_schema(source_resource.val, "source", 0)
                t2 == t1 \o vs.trace
            IN  IF ~vs.ok THEN Run(t2, <<>>, vs.exc)
                ELSE
                LET vt == validate_schema(target_resource.val, "target", 0)
                    t3 == t2 \o vt.trace
                IN  IF ~vt.ok THEN Run(t3, <<>>, vt.exc)
                    ELSE Run(t3 \o <<Ev("delegate", "", 0, "DeepDiff"),
                                     Ev("print", "", 0, "")>>,
                             <<DeepDiff(source_resource.val, target_resource.val)>>,
                             NoExc)

\* data is the text of the DATA argument; typer runs its callback,
\* ast.literal_eval, before the body of the command
serialize(data, path, url, serialization_type) ==
    LET d == literal_eval(data)
    IN  IF d.kind = "error" THEN Run(<<>>, <<>>, Raise("ValueError", <<>>))
        ELSE
        LET resource == get_resource(path, url, NoMessages, "resource")
        IN  IF ~resource.ok THEN Run(resource.trace, <<>>, resource.exc)
            ELSE
            LET v == validate_schema(resource.val, "resource", 0)
                t1 == resource.trace \o v.trace
                t2 == t1 \o <<Ev("delegate", "resource", 0, "serialize")>>
            IN  IF ~v.ok THEN Run(t1, <<>>, v.exc)
                ELSE IF d.kind # "dict" THEN Run(t2, <<>>, Raise("TypeError", <<>>))
                ELSE Run(t2 \o <<Ev("print", "resource", 0, "")>>,
                         <<BytesRepr(codec_serialize(d.val[1], serialization_type))>>,
                         NoExc)

deserialize(event, path, url, serialization_type) ==
    LET resource == get_resource(path, url, NoMessages, "resource")
    IN  IF ~resource.ok THEN Run(resource.trace, <<>>, resource.exc)
        ELSE
        LET v == validate_schema(resource.val, "resource", 0)
            t1 == resource.trace \o v.trace
            t2 == t1 \o <<Ev("delegate", "resource", 0, "deserialize")>>
        IN  IF ~v.ok THEN Run(t1, <<>>, v.exc)
            ELSE
            LET lit == literal_eval(event)
                data == IF serialization_type = "avro" THEN lit.val ELSE Encode(event)
            IN  IF serialization_type = "avro" /\ lit.kind = "error"
                THEN Run(t1, <<>>, Raise("ValueError", <<>>))
                ELSE IF serialization_type = "avro" /\ lit.kind # "bytes"
                THEN Run(t2, <<>>, Raise("TypeError", <<>>))
                ELSE
                LET output == codec_deserialize(data, serialization_type)
                IN  IF ~output.ok THEN Run(t2, <<>>, Raise("DecodeError", <<>>))
                    ELSE Run(t2 \o <<Ev("print", "resource", 0, "")>>,
                             <<DictRepr(output.val)>>, NoExc)

\* errors kept as a list: every failure adds an entry
DictSet_append(errors, path, e) == Append(errors, [path |-> path, exc |-> e])

\* errors[path] = e of a dict kept in insertion order: a key already present
\* keeps its place and takes the new value
DictSet(errors, path, e) ==
    IF \E i \in 1..Len(errors) : errors[i].path = path
    THEN [i \in 1..Len(errors) |->
            IF errors[i].path = path THEN [path |-> path, exc |-> e] ELSE errors[i]]
    ELSE Append(errors, [path |-> path, exc |-> e])

\* the part of lint after its loop: the summary and the aggregate error
lint_report(errors, valid_schemas, tr) ==
    LET valid_out ==
            IF valid_schemas # <<>>
            THEN <<<<"\n:+1: Total valid schemas: ">> \o Str(Len(valid_schemas))>>
                    \o [i \in 1..Len(valid_schemas) |-> <<valid_schemas[i]>>]
            ELSE <<>>
        error_out ==
            [k \in 1..(2 * Len(errors)) |->
                IF k % 2 = 1
                THEN <<":boom: File: ", errors[(k + 1) \div 2].path>>
                ELSE <<"[red]">> \o errors[k \div 2].exc.msg \o <<"[/red]">>]
        out == valid_out \o error_out
        prints == [k \in 1..Len(out) |-> Ev("print", "file", 0, "")]
    IN  IF errors # <<>>
        THEN Run(tr \o prints \o <<Ev("raise", "file", 0, "InvalidSchema")>>, out,
                 Raise("InvalidSchema",
                       <<"Total errors detected: ">> \o Str(Len(errors))))
        ELSE Run(tr \o prints, out, NoExc)

\* lint with break in place of continue: the first failure ends the loop
RECURSIVE lint_loop_break(_, _, _, _, _)
lint_loop_break(files, i, errors, valid_schemas, tr) ==
    IF i > Len(files) THEN lint_report(errors, valid_schemas, tr)
    ELSE
    LET path == files[i]
        schema == get_resource_from_path(path, "file", i)
        t1 == tr \o schema.trace
    IN  IF ~schema.ok
        THEN IF schema.exc.type = "JsonRequired"
             THEN lint_report(DictSet(errors, path, schema.exc), valid_schemas, t1)
             ELSE Run(t1, <<>>, schema.exc)
        ELSE
        LET v == validate_schema(schema.val, "file", i)
            t2 == t1 \o v.trace
        IN  IF ~v.ok
            THEN IF v.exc.type = "InvalidSchema"
                 THEN lint_report(DictSet(errors, path, v.exc), valid_schemas, t2)
                 ELSE Run(t2, <<>>, v.exc)
            ELSE lint_loop_break(files, i + 1, errors, Append(valid_schemas, path), t2)

\* the loop of lint from the i-th path on
RECURSIVE lint_loop(_, _, _, _, _)
lint_loop(files, i, errors, valid_schemas, tr) ==
    IF i > Len(files) THEN lint_report(errors, valid_schemas, tr)
    ELSE
    LET path == files[i]
        schema == get_resource_from_path(path, "file", i)
        t1 == tr \o schema.trace
    IN  IF ~schema.ok
        THEN IF schema.exc.type = "JsonRequired"
             THEN lint_loop(files, i + 1, DictSet(errors, path, schema.exc),
                            valid_schemas, t1)
             ELSE Run(t1, <<>>, schema.exc)
        ELSE
        LET v == validate_schema(schema.val, "file", i)
            t2 == t1 \o v.trace
        IN  IF ~v.ok
            THEN IF v.exc.type = "InvalidSchema"
                 THEN lint_loop(files, i + 1, DictSet(errors, path, v.exc),
                                valid_schemas, t2)
                 ELSE Run(t2, <<>>, v.exc)
            ELSE lint_loop(files, i + 1, errors, Append(valid_schemas, path), t2)

lint(files) == lint_loop(files, 1, <<>>, <<>>, <<>>)

\* ------------------------------------------------------------ inputs
PathArgs == {None, ""} \cup DOMAIN Files \cup {"missing.avsc"}

UrlArgs == {None, ""} \cup DOMAIN Urls \cup {"https://down"}

BaseClasses == {"AvroModel", "BaseModel"}

\* PATH... of lint: one to MaxFiles paths
LintPaths == DOMAIN Files \cup {"missing.avsc"}

FileLists == UNION {[1..n -> LintPaths] : n \in 1..MaxFiles}

\* DATA of serialize: the text of a record, or a text that is no literal
DataArgs == {DictRepr(n) : n \in 0..MaxInt} \cup {<<"x">>}

\* EVENT of deserialize: what serialize printed, the JSON text of a record, or
\* a text that is neither
EventArgs ==
    {BytesRepr(codec_serialize(n, t)) : n \in 0..MaxInt, t \in SerializationTypes}
        \cup {JsonText(n) : n \in 0..MaxInt} \cup {<<"x">>}

\* ------------------------------------------------------------ actions
\* One process runs one command: a command starts in a process that has run
\* none, and nothing follows it.
Finish(c, a, r) ==
    /\ cmd' = c
    /\ args' = a
    /\ trace' = r.trace
    /\ stdout' = r.stdout
    /\ exc' = r.exc
    /\ exitCode' = ExitCode(r.exc)

GenerateModel ==
    /\ cmd = "none"
    /\ \E path \in PathArgs, url \in UrlArgs, base_class \in BaseClasses :
           Finish("generate-model",
                  [path |-> path, url |-> url, base_class |-> base_class],
                  generate_model(path, url, base_class))

ValidateSchema ==
    /\ cmd = "none"
    /\ \E path \in PathArgs, url \in UrlArgs :
           Finish("validate-schema", [path |-> path, url |-> url],
                  validate_schema_command(path, url))

SchemaDiff ==
    /\ cmd = "none"
    /\ \E source_path \in PathArgs, source_url \in UrlArgs,
          target_path \in PathArgs, target_url \in UrlArgs :
           Finish("schema-diff",
                  [source_path |-> source_path, source_url |-> source_url,
                   target_path |-> target_path, target_url |-> target_url],
                  schema_diff(source_path, source_url, target_path, target_url))

Serialize ==
    /\ cmd = "none"
    /\ \E data \in DataArgs, path \in PathArgs, url \in UrlArgs,
          serialization_type \in SerializationTypes :
           Finish("serialize",
                  [data |-> data, path |-> path, url |-> url,
                   serialization_type |-> serialization_type],
                  serialize(data, path, url, serialization_type))

Deserialize ==
    /\ cmd = "none"
    /\ \E event \in EventArgs, path \in PathArgs, url \in UrlArgs,
          serialization_type \in SerializationTypes :
           Finish("deserialize",
                  [event |-> event, path |-> path, url |-> url,
                   serialization_type |-> serialization_type],
                  deserialize(event, path, url, serialization_type))

Lint ==
    /\ cmd = "none"
    /\ \E files \in FileLists :
           Finish("lint", [files |-> files], lint(files))

Init ==
    /\ cmd = "none"
    /\ args = [path |-> None, url |-> None]
    /\ trace = <<>>
    /\ stdout = <<>>
    /\ exc = NoExc
    /\ exitCode = 0

Next ==
    \/ GenerateModel
    \/ ValidateSchema
    \/ SchemaDiff
    \/ Serialize
    \/ Deserialize
    \/ Lint

Spec == Init /\ [][Next]_vars

\* ------------------------------------------------------------ claims
Range(seq) == {seq[i] : i \in DOMAIN seq}

Events(kinds) == {i \in DOMAIN trace : trace[i].ev \in kinds}

\* an option was given on the command line
Supplied(x) == x # None

\* a resource reference that breaks the rule: both options or neither
BadReference(path, url) == Supplied(path) <=> Supplied(url)

ResourceCommands == {"validate-schema", "generate-model", "serialize", "deserialize"}

\* the DATA argument passed its callback, so the body of the command ran
BodyRan == cmd = "serialize" => literal_eval(args.data).kind # "error"

\* what the schema parser says of the document of a validate event
Rejected(e) == parse_schema(e.arg).raises # ""

\* C1 (as stated): in validate-schema, generate-model, serialize and
\* deserialize, when --path and --url are both supplied (whatever their
\* values, the empty string included) or both missing, the run ends with exit
\* code 2 and no file was opened or read and no GET was made; and a load is
\* attempted only when exactly one of the two is supplied.
C1_UsageErrorBeforeIO ==
    (cmd \in ResourceCommands /\ BodyRan) =>
        /\ BadReference(args.path, args.url) =>
                (exitCode = 2 /\ Events({"open", "read", "get"}) = {})
        /\ Events({"open", "read", "get"}) # {} => ~BadReference(args.path, args.url)

\* C3: a document that is JSON and that the schema parser rejects, as a
\* malformed schema or as an unknown type, makes validation fail with
\* InvalidSchema; the command (validate-schema and the other single-run
\* commands) exits with code 1 and prints nothing.
C3_RejectedSchemaIsInvalidSchema ==
    (cmd \notin {"none", "lint"}) =>
        \A i \in Events({"validate"}) :
            Rejected(trace[i]) =>
                /\ exc.type = "InvalidSchema"
                /\ exitCode = 1
                /\ stdout = <<>>
                /\ Events({"delegate", "print"}) = {}

C3_Witness ==
    /\ cmd = "validate-schema"
    /\ args.path = "unknown_type.avsc"
    /\ \E i \in Events({"validate"}) : trace[i].arg = "Unknown"
    /\ exitCode = 1

\* the content a read or a GET retrieved is not JSON
NotJson(e) ==
    IF e.ev = "read" THEN ~JsonLoads(Files[e.arg]).ok
    ELSE e.arg \in DOMAIN Urls /\ ~JsonLoads(Urls[e.arg]).ok

\* C4: content that is not JSON, read from a path or fetched from a url, makes
\* the load fail with JsonRequired and a message that names the path or url;
\* the validator is not called on it.  (lint catches the error and reports the
\* message when it prints its summary.)
C4_NotJsonIsJsonRequired ==
    \A i \in Events({"read", "get"}) :
        NotJson(trace[i]) =>
            /\ ~\E j \in Events({"validate"}) :
                    trace[j].ref = trace[i].ref /\ trace[j].pos = trace[i].pos
            /\ cmd # "lint" =>
                    /\ exc.type = "JsonRequired"
                    /\ trace[i].arg \in Range(exc.msg)
                    /\ exitCode = 1
                    /\ i = Len(trace)
            /\ (cmd = "lint" /\ exc.type # "FileNotFoundError") =>
                    \E k \in DOMAIN stdout :
                        stdout[k] = <<"[red]",
                                      "Can not convert to json the resource from ",
                                      trace[i].arg, "[/red]">>

C4_Witness ==
    /\ cmd = "validate-schema"
    /\ args.url = "https://google.com"
    /\ args.path = None
    /\ exc.type = "JsonRequired"

\* C5 (as stated): deserialize, given what serialize printed for a record V
\* with the same schema and the same serialization type, avro or avro-json,
\* prints V.
C5_RoundTrip ==
    cmd = "deserialize" =>
        \A n \in 0..MaxInt :
            LET s == serialize(DictRepr(n), args.path, args.url, args.serialization_type)
            IN  (s.exc = NoExc /\ args.event = s.stdout[1]) =>
                    (exc = NoExc /\ stdout = <<DictRepr(n)>>)

\* C6 (as stated): in schema-diff, when the source reference or the target
\* reference has both or neither of its options, the run ends with exit code 2
\* and no file was opened or read and no GET was made for either reference.
\* (Checked on the runs where no option is the empty string, so that a
\* violation shows the order of the checks and nothing else.)
C6_DiffUsageErrorBeforeIO ==
    (/\ cmd = "schema-diff"
     /\ "" \notin {args.source_path, args.source_url, args.target_path, args.target_url}) =>
        ((BadReference(args.source_path, args.source_url)
            \/ BadReference(args.target_path, args.target_url)) =>
                (exitCode = 2 /\ Events({"open", "read", "get"}) = {}))

\* C8 (as stated): the message of an InvalidSchema raised by validation holds
\* the document and the message of the parser, on both rejections.
C8_MessageHasDocumentAndParserMessage ==
    (cmd \notin {"none", "lint"} /\ exc.type = "InvalidSchema") =>
        \A i \in Events({"validate"}) :
            Rejected(trace[i]) =>
                /\ trace[i].arg \in Range(exc.msg)
                /\ parse_schema(trace[i].arg).msg \in Range(exc.msg)

\* the options of the reference a get_resource call checks
OptionNames(ref) ==
    CASE ref = "source" -> {"--source-path", "--source-url"}
      [] ref = "target" -> {"--target-path", "--target-url"}
      [] OTHER -> {"--path", "--url"}

\* C10 (as stated): the message of a usage error names the two options of the
\* reference at fault: --path/--url, --source-path/--source-url, or
\* --target-path/--target-url.
C10_UsageMessageNamesOptions ==
    exc.type = "BadParameter" =>
        OptionNames(trace[Len(trace)].ref) \subseteq Range(exc.msg)

\* ---- lint
\* the file at a path is JSON and a valid schema
ValidFile(p) ==
    /\ p \in DOMAIN Files
    /\ JsonLoads(Files[p]).ok
    /\ parse_schema(JsonLoads(Files[p]).doc).raises = ""

\* the file at a path exists and is not JSON, or not a valid schema
InvalidFile(p) == p \in DOMAIN Files /\ ~ValidFile(p)

AllExist(files) == \A i \in DOMAIN files : files[i] \in DOMAIN Files

Count(files, P(_)) == Cardinality({i \in DOMAIN files : P(files[i])})

\* the lines of standard output that report a failing path
BoomLines == {k \in DOMAIN stdout : stdout[k][1] = ":boom: File: "}

\* the lines of standard output that report a valid path
ValidLines ==
    {k \in DOMAIN stdout :
        /\ Len(stdout[k]) = 1
        /\ \E i \in DOMAIN args.files : args.files[i] = stdout[k][1]}

\* the message lint reports for a failing path
ErrorMessage(p) ==
    LET r == get_resource_from_path(p, "file", 0)
    IN  IF ~r.ok THEN r.exc.msg ELSE validate_schema(r.val, "file", 0).exc.msg

\* C2 (as stated): for a list of N paths of valid files and M paths of invalid
\* files, repeated paths counted each time, lint reports exactly N valid paths
\* and exactly M failing paths, each with its message, and exits with 0 if and
\* only if M = 0.
C2_LintReportsEveryPath ==
    (cmd = "lint" /\ AllExist(args.files)) =>
        /\ Cardinality(ValidLines) = Count(args.files, ValidFile)
        /\ Cardinality(BoomLines) = Count(args.files, InvalidFile)
        /\ \A k \in BoomLines :
                stdout[k + 1] = <<"[red]">> \o ErrorMessage(stdout[k][2]) \o <<"[/red]">>
        /\ (exitCode = 0 <=> Count(args.files, InvalidFile) = 0)

\* C2 (amended): lint reports every occurrence of a valid path, in order, and
\* their number; it reports every failing path once, however often the list
\* holds it, with its message, and the error total counts the distinct failing
\* paths; it exits with 1 when a path fails and with 0 when none does.
C2_LintReportsDistinctFailures ==
    (cmd = "lint" /\ AllExist(args.files)) =>
        LET valid == SelectSeq(args.files, ValidFile)
            failing == {args.files[i] : i \in {j \in DOMAIN args.files :
                                                    InvalidFile(args.files[j])}}
            nv == IF valid = <<>> THEN 0 ELSE Len(valid) + 1
        IN  /\ valid # <<>> =>
                    /\ stdout[1] = <<"\n:+1: Total valid schemas: ">> \o Str(Len(valid))
                    /\ \A i \in DOMAIN valid : stdout[i + 1] = <<valid[i]>>
            /\ Len(stdout) = nv + 2 * Cardinality(failing)
            /\ BoomLines \subseteq (nv + 1)..Len(stdout)
            /\ {stdout[k][2] : k \in BoomLines} = failing
            /\ Cardinality(BoomLines) = Cardinality(failing)
            /\ \A k \in BoomLines :
                    stdout[k + 1] = <<"[red]">> \o ErrorMessage(stdout[k][2]) \o <<"[/red]">>
            /\ failing # {} =>
                    /\ exitCode = 1
                    /\ exc = Raise("InvalidSchema",
                                   <<"Total errors detected: ">> \o Str(Cardinality(failing)))
            /\ failing = {} => (exitCode = 0 /\ exc = NoExc)

C2_Witness ==
    /\ cmd = "lint"
    /\ AllExist(args.files)
    /\ \E i, j \in DOMAIN args.files :
            i < j /\ args.files[i] = args.files[j] /\ InvalidFile(args.files[i])
    /\ \E i \in DOMAIN args.files : ValidFile(args.files[i])
    /\ Cardinality(BoomLines) = 1
    /\ exitCode = 1

\* C7 (as stated): lint attempts the load of every path of its list whatever
\* happened to the earlier ones (not JSON, invalid schema, a path that does
\* not exist), and the aggregate error comes after all of them and the summary.
C7_LintProcessesEveryPath ==
    cmd = "lint" =>
        /\ \A i \in DOMAIN args.files :
                \E k \in Events({"open"}) : trace[k].pos = i
        /\ \A r \in Events({"raise"}) :
                \A k \in Events({"open", "read", "validate", "print"}) : k < r

\* C7 (amended): a path whose content is not JSON or not a valid schema never
\* stops lint: every path up to and including the first one that does not
\* exist is loaded, and validated when it is JSON.  A path that does not
\* exist ends the command at once with the filesystem error: the paths after
\* it are not processed and nothing is printed.  The aggregate error is raised
\* only after every path was processed and the summary printed.
C7_LintStopsOnlyAtMissingPath ==
    cmd = "lint" =>
        LET files == args.files
            missing == {i \in DOMAIN files : files[i] \notin DOMAIN Files}
        IN  /\ \A i \in DOMAIN files :
                IF \A j \in missing : i <= j
                THEN /\ \E k \in Events({"open"}) :
                            trace[k].pos = i /\ trace[k].arg = files[i]
                     /\ (i \notin missing /\ JsonLoads(Files[files[i]]).ok) =>
                            \E k \in Events({"validate"}) : trace[k].pos = i
                ELSE ~\E k \in DOMAIN trace : trace[k].pos = i
            /\ missing # {} =>
                    /\ exc.type = "FileNotFoundError"
                    /\ stdout = <<>>
                    /\ Events({"print", "raise"}) = {}
            /\ \A r \in Events({"raise"}) :
                    /\ r = Len(trace)
                    /\ missing = {}
                    /\ Cardinality(Events({"print"})) = Len(stdout)
                    /\ stdout # <<>>

C7_Witness ==
    /\ cmd = "lint"
    /\ Len(args.files) = 3
    /\ args.files[1] = "invalid_resource.txt"
    /\ args.files[2] = "invalid_example.avsc"
    /\ args.files[3] = "example.avsc"
    /\ \E k \in Events({"validate"}) : trace[k].pos = 3
    /\ Events({"raise"}) = {Len(trace)}

\* ---- the pipeline
\* the references of a command
References ==
    IF cmd = "schema-diff" THEN {"source", "target"} ELSE {"resource"}

====
